---- MODULE Spec2Model ----
(***************************************************************************)
(* CachingLoader (caching_loader/caching_loader.py): a memoizing,          *)
(* request-deduplicating facade over an asynchronous load function.        *)
(*                                                                         *)
(* A promise is identified by its position in `promises` (object          *)
(* identity); the async value returned by one call of the load function    *)
(* is identified by its position in `load_calls`.  An async value settles  *)
(* either before it is returned (its continuations then fire inside the    *)
(* call that attaches them) or at a later turn of the scheduler (Settle).  *)
(***************************************************************************)
EXTENDS Integers, Sequences, FiniteSets, TLC

\* ------------------------------------------------------------------ bounds
NumKeys == 2       \* the keys offered to the loader
MaxPromises == 2   \* the Promise objects created
MaxCalls == 4      \* the operations of one run

Keys == 1..NumKeys
CacheKeys == 1..NumKeys
Values == {"v1"}
Errors == {"e1"}

VARIABLES
    promise_cache,  \* self._promise_cache: cache key -> promise
    promises,       \* every Promise object created so far: its state and value
    load_calls,     \* the calls of self._load_fn: key, handle to settle, async result
    cache_type,     \* the type of the mapping self._promise_cache
    cache_map,      \* the cache_map the loader was constructed with
    cache_key_fn,   \* self._cache_key_fn
    load_fn,        \* self._load_fn: the kind of load function the loader was given
    callbacks,      \* the continuations the load function attached, not yet fired
    last,           \* history: the most recent operation, its result and its pre-state
    ghost,          \* history, per cache key: what the operations so far did to it
    ncalls          \* history: the number of operations so far

vars == <<promise_cache, cache_type, cache_map, promises, load_calls, cache_key_fn, load_fn,
          callbacks, last, ghost, ncalls>>

\* ------------------------------------------------------- the promise library
None == "None"

Pending == [state |-> "pending", value |-> None]

\* Promise(): a new object, distinct from every promise created before.
NewPromise(ps, p) == Append(ps, p)

\* resolve_fn / reject_fn handed out by Promise.do_resolve: the first call settles.
settle(ps, h, st, v) ==
    IF ps[h].state = "pending" THEN [ps EXCEPT ![h] = [state |-> st, value |-> v]] ELSE ps

resolve(ps, h, value) == settle(ps, h, "fulfilled", value)

reject(ps, h, error) == settle(ps, h, "rejected", error)

\* hasattr(promise, 'then') and callable(promise.then)
has_then(x) == x.kind = "promise"

\* ---------------------------------------------------------- the backing map
contains(cache, cache_key) == cache_key \in DOMAIN cache

setitem(cache, cache_key, promise) ==
    [c \in DOMAIN cache \cup {cache_key} |->
        IF c = cache_key THEN promise ELSE cache[c]]

delitem(cache, cache_key) == [c \in DOMAIN cache \ {cache_key} |-> cache[c]]

EmptyCache == [c \in {} |-> 0]

\* ------------------------------------------------------------ cache_key_fn
\* the default: lambda x: x
identity_key_fn == [k \in Keys |-> k]

\* a custom function (the tests' hash(str(proto))): keys 1 and 2 print alike.
stringify_cache_key_fn == [k \in Keys |-> (k + 1) \div 2]

\* ------------------------------------------------------------ CachingLoader
\* The loader `self` as a record; every method returns the loader after the
\* call, what the call returned (ret) and the exception it raised, if any.
\* (reentered: the calls of load made so far from inside the running call)
Self ==
    [promise_cache |-> promise_cache, cache_type |-> cache_type, promises |-> promises,
     load_calls |-> load_calls, load_fn |-> load_fn, callbacks |-> callbacks,
     reentered |-> <<>>]

\* (promise 0: the call returned no promise)
ReturnsSelf(self) == [self |-> self, ret |-> "self", promise |-> 0, raised |-> None]

ReturnsPromise(self, p) == [self |-> self, ret |-> "promise", promise |-> p, raised |-> None]

ReturnsNone(self) == [self |-> self, ret |-> None, promise |-> 0, raised |-> None]

Raised(self, exc) == [self |-> self, ret |-> None, promise |-> 0, raised |-> exc]

\* self._promise_cache[cache_key] = promise.  A dict takes every key; the
\* tests' SingleElementDict asserts that it holds nothing yet.
map_setitem(self, cache_key, promise) ==
    IF self.cache_type = "SingleElementDict" /\ DOMAIN self.promise_cache # {}
    THEN Raised(self, "AssertionError")
    ELSE ReturnsNone([self EXCEPT !.promise_cache = setitem(@, cache_key, promise)])

\* del self._promise_cache[cache_key].  SingleElementDict keeps its items in its
\* __dict__ and inherits dict's __delitem__, which finds nothing to delete.
map_delitem(self, cache_key) ==
    IF self.cache_type = "dict" /\ contains(self.promise_cache, cache_key)
    THEN ReturnsNone([self EXCEPT !.promise_cache = delitem(@, cache_key)])
    ELSE Raised(self, "KeyError")

\* load(key) called while a call of the loader is running: from inside the load
\* function (from = "load_fn") or from a continuation of the settled promise
\* `handle` (from = "continuation").  On a miss the load function is called
\* again; that call finds its own promise published, attaches its continuation
\* to it and returns an async value that has not settled.  What the call found
\* and returned is recorded in reentered.
load_again(self, key, from, handle) ==
    LET cache_key == cache_key_fn[key]
        hit == contains(self.promise_cache, cache_key)
        promise == IF hit THEN self.promise_cache[cache_key] ELSE Len(self.promises) + 1
        created == [self EXCEPT !.promises = NewPromise(@, Pending)]
        published == map_setitem(created, cache_key, promise)
        refused == ~hit /\ published.raised # None
        called == [published.self EXCEPT
                      !.load_calls = Append(@, [key |-> key, promise |-> promise,
                                                state |-> "pending", value |-> None]),
                      !.callbacks = @ \cup {[promise |-> promise, key |-> key]}]
        after == IF hit THEN self ELSE IF refused THEN published.self ELSE called
    IN  [after EXCEPT !.reentered =
            Append(@, [from |-> from, key |-> key, handle |-> handle,
                       state |-> self.promises[handle].state, present |-> hit,
                       promise |-> IF refused THEN 0 ELSE promise,
                       invoked |-> ~hit /\ ~refused])]

\* the re-entrant load function: def load_fn(key): h = loader.load(key);
\* h.then(again, again), with again = lambda _: loader.load(key); return result
load_fn_reenters(self, key, promise) ==
    LET again == load_again(self, key, "load_fn", promise)
        h == again.reentered[Len(again.reentered)].promise
    IN  IF h = 0 THEN again
        ELSE [again EXCEPT !.callbacks = @ \cup {[promise |-> h, key |-> key]}]

\* the continuations attached to a promise run when it settles
fire(self, promise) ==
    IF \E cb \in self.callbacks : cb.promise = promise
    THEN LET cb == CHOOSE c \in self.callbacks : c.promise = promise
         IN  load_again([self EXCEPT !.callbacks = @ \ {cb}], cb.key, "continuation", promise)
    ELSE self

\* resolve(value) / reject(error) called on the loader's promise h
settle_and_fire(self, h, st, v) ==
    IF self.promises[h].state = "pending"
    THEN fire([self EXCEPT !.promises = settle(@, h, st, v)], h)
    ELSE self

\* (a clear that answers without deleting)
clear_keeps_entry(self, key) ==
    IF contains(self.promise_cache, cache_key_fn[key])
    THEN ReturnsSelf(self)
    ELSE Raised(self, "KeyError")

clear(self, key) ==
    LET cache_key == cache_key_fn[key]
        deleted == map_delitem(self, cache_key)
    IN  IF deleted.raised # None THEN deleted ELSE ReturnsSelf(deleted.self)

\* (a clear_all that resets nothing)
clear_all_keeps(self) == ReturnsSelf(self)

\* self._promise_cache = {}
clear_all(self) ==
    ReturnsSelf([self EXCEPT !.promise_cache = EmptyCache, !.cache_type = "dict"])

\* (a prime that declines to cache a promise that has failed)
prime_skips_rejected(self, key, x) ==
    IF ~has_then(x)
    THEN Raised(self, "AssertionError")
    ELSE LET cache_key == cache_key_fn[key] IN
         IF ~contains(self.promise_cache, cache_key)
                /\ self.promises[x.promise].state # "rejected"
         THEN ReturnsSelf([self EXCEPT !.promise_cache = setitem(@, cache_key, x.promise)])
         ELSE ReturnsSelf(self)

\* (a prime that overwrites)
prime_overwrites(self, key, x) ==
    IF ~has_then(x)
    THEN Raised(self, "AssertionError")
    ELSE ReturnsSelf([self EXCEPT !.promise_cache = setitem(@, cache_key_fn[key], x.promise)])

\* (a prime that stores before it checks what it was given)
prime_checks_late(self, key, x) ==
    LET cache_key == cache_key_fn[key]
        stored == IF ~contains(self.promise_cache, cache_key)
                  THEN [self EXCEPT !.promise_cache = setitem(@, cache_key, x.promise)]
                  ELSE self
    IN  IF ~has_then(x) THEN Raised(stored, "AssertionError") ELSE ReturnsSelf(stored)

prime(self, key, x) ==
    IF ~has_then(x)
    THEN Raised(self, "AssertionError")
    ELSE LET cache_key == cache_key_fn[key]
             stored == map_setitem(self, cache_key, x.promise)
         IN  IF ~contains(self.promise_cache, cache_key)
             THEN IF stored.raised # None THEN stored ELSE ReturnsSelf(stored.self)
             ELSE ReturnsSelf(self)

\* (a failure dispatch that rejects and leaves the entry in the cache)
failed_dispatch_keeps_entry(self, key, promise, error) ==
    ReturnsNone(settle_and_fire(self, promise, "rejected", error))

\* (a failure dispatch that drops the whole cache)
failed_dispatch_clears_all(self, key, promise, error) ==
    ReturnsNone(settle_and_fire([self EXCEPT !.promise_cache = EmptyCache],
                                promise, "rejected", error))

\* (a failure dispatch that rejects before it clears)
failed_dispatch_rejects_first(self, key, promise, error) ==
    LET cleared == clear(settle_and_fire(self, promise, "rejected", error), key)
    IN  IF cleared.raised # None THEN cleared ELSE ReturnsNone(cleared.self)

\* clear(key), then reject(error); an exception of clear leaves before the reject.
failed_dispatch(self, key, promise, error) ==
    LET cleared == clear(self, key) IN
    IF cleared.raised # None
    THEN cleared
    ELSE ReturnsNone(settle_and_fire(cleared.self, promise, "rejected", error))

\* handle_error, the catch continuation: what it raises goes to the promise that
\* catch() returned, which nobody holds.
handle_error(self, key, promise, error) == failed_dispatch(self, key, promise, error).self

\* loaded_promise.then(resolve).catch(handle_error), run for the settled call i.
continuations(self, i) ==
    LET call == self.load_calls[i] IN
    IF call.state = "fulfilled"
    THEN settle_and_fire(self, call.promise, "fulfilled", call.value)
    ELSE handle_error(self, call.key, call.promise, call.value)

\* (a handle_load_call whose continuations never fire inside the call)
handle_load_call_defers(self, key, promise, loaded) ==
    LET called == [self EXCEPT !.load_calls =
                       Append(@, [key |-> key, promise |-> promise,
                                  state |-> loaded.state, value |-> loaded.value])]
    IN  IF self.load_fn = "reentrant" THEN load_fn_reenters(called, key, promise) ELSE called

\* handle_load_call: call the load function (its async result is `loaded`) and
\* attach the continuations, which fire at once when the result has settled.
handle_load_call(self, key, promise, loaded) ==
    LET i == Len(self.load_calls) + 1
        called == [self EXCEPT !.load_calls =
                       Append(@, [key |-> key, promise |-> promise,
                                  state |-> loaded.state, value |-> loaded.value])]
        entered == IF self.load_fn = "reentrant"
                   THEN load_fn_reenters(called, key, promise)
                   ELSE called
    IN  IF loaded.state = "pending" THEN entered ELSE continuations(entered, i)

\* the else branch of load: publish a pending promise, then handle the load call
\* (a load that goes on without a cache entry when the mapping refuses it)
load_miss_ignores_map_error(self, key, cache_key, loaded) ==
    LET promise == Len(self.promises) + 1
        created == [self EXCEPT !.promises = NewPromise(@, Pending)]
        published == map_setitem(created, cache_key, promise)
    IN  ReturnsPromise(handle_load_call(published.self, key, promise, loaded), promise)

\* (a load that calls the load function before it publishes its promise)
load_miss_publishes_late(self, key, cache_key, loaded) ==
    LET promise == Len(self.promises) + 1
        created == [self EXCEPT !.promises = NewPromise(@, Pending)]
        handled == handle_load_call(created, key, promise, loaded)
        published == map_setitem(handled, cache_key, promise)
    IN  IF published.raised # None THEN published ELSE ReturnsPromise(published.self, promise)

load_miss(self, key, cache_key, loaded) ==
    LET promise == Len(self.promises) + 1
        created == [self EXCEPT !.promises = NewPromise(@, Pending)]
        published == map_setitem(created, cache_key, promise)
    IN  IF published.raised # None
        THEN published
        ELSE ReturnsPromise(handle_load_call(published.self, key, promise, loaded), promise)

\* (a load that never looks into the cache)
load_uncached(self, key, loaded) == load_miss(self, key, cache_key_fn[key], loaded)

\* (a load that takes a cached promise only once it has settled)
load_reloads_pending(self, key, loaded) ==
    LET cache_key == cache_key_fn[key] IN
    IF contains(self.promise_cache, cache_key)
           /\ self.promises[self.promise_cache[cache_key]].state # "pending"
    THEN ReturnsPromise(self, self.promise_cache[cache_key])
    ELSE load_miss(self, key, cache_key, loaded)

\* (a load keyed by its input, not by the derived cache key)
load_keyed_by_input(self, key, loaded) ==
    IF contains(self.promise_cache, key)
    THEN ReturnsPromise(self, self.promise_cache[key])
    ELSE load_miss(self, key, key, loaded)

load(self, key, loaded) ==
    LET cache_key == cache_key_fn[key] IN
    IF contains(self.promise_cache, cache_key)
    THEN ReturnsPromise(self, self.promise_cache[cache_key])
    ELSE load_miss(self, key, cache_key, loaded)

\* ------------------------------------------------------------------ history
\* Per cache key, from the calls made so far (never read from the cache):
\*   held        the promise the first load or prime since the last eviction
\*               event stored (0: none);
\*   causes      the eviction events (clear, clear_all, failure) since the last
\*               load or prime of the key;
\*   invocations the calls of the load function since the last eviction event;
\*   first       the key the load function was called with for `held` (0: none).
NoHistory == [held |-> 0, causes |-> {}, invocations |-> 0, first |-> 0]

Evict(g, by) == [NoHistory EXCEPT !.causes = g.causes \cup by]

\* The most recent operation: what it returned or raised, and what it found
\* and did: whether its cache key was in the cache at the call (present),
\* whether it called the load function (invoked), whether the promise it
\* returned was created by it (created), whether it left the cache as it was
\* (same_cache), and the history of its cache key at the call (held, causes,
\* invocations).  arg is the kind of object a prime was given.
Operation(op, key, cache_key, r) ==
    [op |-> op, key |-> key, cache_key |-> cache_key, arg |-> None,
     ret |-> r.ret, promise |-> r.promise, raised |-> r.raised,
     present |-> contains(promise_cache, cache_key),
     invoked |-> Len(r.self.load_calls) > Len(load_calls),
     created |-> r.promise > Len(promises),
     same_cache |-> r.self.promise_cache = promise_cache,
     reentered |-> r.self.reentered,
     held |-> IF cache_key = 0 THEN 0 ELSE ghost[cache_key].held,
     causes |-> IF cache_key = 0 THEN {} ELSE ghost[cache_key].causes,
     invocations |-> IF cache_key = 0 THEN 0 ELSE ghost[cache_key].invocations]

Commit(self) ==
    /\ promise_cache' = self.promise_cache
    /\ cache_type' = self.cache_type
    /\ promises' = self.promises
    /\ load_calls' = self.load_calls
    /\ callbacks' = self.callbacks
    /\ Len(self.promises) <= MaxPromises
    /\ ncalls < MaxCalls
    /\ ncalls' = ncalls + 1
    /\ UNCHANGED <<cache_key_fn, cache_map, load_fn>>

\* ------------------------------------------------------------------ actions
Settled ==
    [state : {"fulfilled"}, value : Values] \cup [state : {"rejected"}, value : Errors]

\* what the load function may return: an async value, settled already or not
LoadFnResults == {Pending} \cup Settled

\* the state after CachingLoader(load_fn, cache_map, cache_key_fn)
Constructed(fn, map) ==
    /\ load_fn = fn
    /\ callbacks = {}
    /\ cache_map = map
    /\ cache_type = IF map = None THEN "dict" ELSE map
    /\ promise_cache = EmptyCache
    /\ promises = <<>>
    /\ load_calls = <<>>
    /\ cache_key_fn \in {identity_key_fn, stringify_cache_key_fn}
    /\ ghost = [c \in CacheKeys |-> NoHistory]
    /\ ncalls = 0
    /\ last = [op |-> "init", key |-> 0, cache_key |-> 0, arg |-> None, ret |-> None,
               promise |-> 0, raised |-> None, present |-> FALSE, invoked |-> FALSE,
               created |-> FALSE, same_cache |-> TRUE,
               reentered |-> <<>>, held |-> 0, causes |-> {},
               invocations |-> 0]

\* CachingLoader(load_fn, cache_key_fn=...): the cache is a dict
Init == Constructed("plain", None)

\* CachingLoader(load_fn, cache_map=SingleElementDict(), cache_key_fn=...)
InitSingleElementDict == Constructed("plain", "SingleElementDict")

\* CachingLoader(load_fn, ...), load_fn a function that loads its key again
InitReentrant == Constructed("reentrant", None)

Load(key, loaded) ==
    LET cache_key == cache_key_fn[key]
        r == load(Self, key, loaded)
        g == ghost[cache_key]
        invoked == Len(r.self.load_calls) > Len(load_calls)
    IN  /\ contains(promise_cache, cache_key) \/ Len(promises) < MaxPromises
        /\ Commit(r.self)
        /\ last' = Operation("load", key, cache_key, r)
        /\ ghost' = [ghost EXCEPT ![cache_key] =
                        IF invoked /\ loaded.state = "rejected"
                        THEN Evict(NoHistory, {"failure"})
                        ELSE [held |-> IF g.held = 0 THEN r.promise ELSE g.held,
                              causes |-> {},
                              invocations |-> g.invocations + (IF invoked THEN 1 ELSE 0),
                              first |-> IF invoked THEN key ELSE g.first]]

\* The async value of the load function's call i settles at a later turn.
Settle(i, outcome) ==
    LET call == load_calls[i]
        cache_key == cache_key_fn[call.key]
        settled == [Self EXCEPT !.load_calls[i].state = outcome.state,
                                !.load_calls[i].value = outcome.value]
        after == continuations(settled, i)
    IN  /\ call.state = "pending"
        /\ Commit(after)
        /\ last' = [Operation("settle", call.key, cache_key, ReturnsNone(after))
                        EXCEPT !.ret = outcome.state, !.promise = call.promise]
        /\ ghost' = IF outcome.state = "rejected"
                    THEN [ghost EXCEPT ![cache_key] = Evict(@, {"failure"})]
                    ELSE ghost

Clear(key) ==
    LET cache_key == cache_key_fn[key]
        r == clear(Self, key)
    IN  /\ Commit(r.self)
        /\ last' = Operation("clear", key, cache_key, r)
        /\ ghost' = [ghost EXCEPT ![cache_key] =
                        Evict(@, IF @.held = 0 THEN {} ELSE {"clear"})]

ClearAll ==
    LET r == clear_all(Self)
    IN  /\ Commit(r.self)
        /\ last' = Operation("clear_all", 0, 0, r)
        /\ ghost' = [c \in CacheKeys |->
                        Evict(ghost[c], IF ghost[c].held = 0 THEN {} ELSE {"clear_all"})]

\* prime(key, x), x a promise that exists already.
Prime(key, p) ==
    LET cache_key == cache_key_fn[key]
        r == prime(Self, key, [kind |-> "promise", promise |-> p])
    IN  /\ Commit(r.self)
        /\ last' = [Operation("prime", key, cache_key, r)
                        EXCEPT !.promise = p, !.arg = "promise"]
        /\ ghost' = [ghost EXCEPT ![cache_key] =
                        [@ EXCEPT !.held = IF @ = 0 THEN p ELSE @, !.causes = {}]]

\* prime(key, Promise.resolve(value)) and prime(key, Promise.rejected(error))
PrimeNew(key, state) ==
    LET cache_key == cache_key_fn[key]
        p == Len(promises) + 1
        r == prime([Self EXCEPT !.promises = NewPromise(@, state)], key,
                   [kind |-> "promise", promise |-> p])
    IN  /\ Len(promises) < MaxPromises
        /\ Commit(r.self)
        /\ last' = [Operation("prime", key, cache_key, r)
                        EXCEPT !.promise = p, !.arg = "promise"]
        /\ ghost' = [ghost EXCEPT ![cache_key] =
                        [@ EXCEPT !.held = IF @ = 0 THEN p ELSE @, !.causes = {}]]

\* prime(key, 'hello'): an object with no then
PrimeNoPromise(key) ==
    LET cache_key == cache_key_fn[key]
        r == prime(Self, key, [kind |-> "str", promise |-> 0])
    IN  /\ Commit(r.self)
        /\ last' = [Operation("prime", key, cache_key, r) EXCEPT !.arg = "str"]
        /\ UNCHANGED ghost

Next ==
    \/ \E key \in Keys, loaded \in LoadFnResults : Load(key, loaded)
    \/ \E i \in 1..Len(load_calls), outcome \in Settled : Settle(i, outcome)
    \/ \E key \in Keys : Clear(key)
    \/ ClearAll
    \/ \E key \in Keys, p \in 1..Len(promises) : Prime(key, p)
    \/ \E key \in Keys, state \in Settled : PrimeNew(key, state)
    \/ \E key \in Keys : PrimeNoPromise(key)

Spec == Init /\ [][Next]_vars

SpecSingleElementDict == InitSingleElementDict /\ [][Next]_vars

SpecReentrant == InitReentrant /\ [][Next]_vars

\* ------------------------------------------------------------------- claims
Calls == 1..Len(load_calls)

\* C1: a load of a cache key for which the history holds a promise (the one the
\* first load or the effective prime stored since the key's last clear,
\* clear_all or load failure) returns that very promise, pending or settled.
C1_LoadReturnsTheStoredHandle ==
    last.op = "load" /\ last.held # 0 => last.promise = last.held

C1_Witness ==
    /\ last.op = "load" /\ last.held # 0
    /\ last.promise = last.held
    /\ promises[last.promise].state = "pending"

\* C2: a load calls the load function exactly when its cache key is absent
\* from the cache at the call, and between two eviction events of a cache key
\* the load function is called at most once for it.
C2_LoadFnCalledOnlyOnMiss ==
    /\ last.op = "load" => (last.invoked <=> ~last.present)
    /\ \A c \in CacheKeys : ghost[c].invocations <= 1

C2_Witness ==
    /\ last.op = "load" /\ last.present /\ ~last.invoked
    /\ last.invocations = 1 /\ ghost[last.cache_key].invocations = 1
    /\ \E i \in Calls : load_calls[i].promise = last.promise /\ load_calls[i].state = "pending"

\* C3: once the async result of a call of the load function has failed, the
\* promise that load returned for it is rejected with that error, the key is
\* not in the cache after the failure, and the next load of the key calls the
\* load function again and returns a promise created by that call.
C3_FailureRejectsEvictsAndRetries ==
    /\ \A i \in Calls :
          load_calls[i].state = "rejected" =>
             promises[load_calls[i].promise] =
                [state |-> "rejected", value |-> load_calls[i].value]
    /\ last.op = "settle" /\ last.ret = "rejected" =>
          ~contains(promise_cache, last.cache_key)
    /\ last.op = "load" /\ "failure" \in last.causes => last.invoked /\ last.created

\* C4: whatever was called between a cache-miss load and the settlement of the
\* load function's async result, the promise that load returned has then
\* settled the same way: fulfilled with its value or rejected with its error.
C4_HandleSettlesWithTheLoadOutcome ==
    \A i \in Calls :
        load_calls[i].state # "pending" =>
           promises[load_calls[i].promise] =
              [state |-> load_calls[i].state, value |-> load_calls[i].value]

\* C5: clear of a cached key removes its cache key from the cache, and the next
\* load of the key calls the load function again and returns a promise created
\* by that call, hence not the one returned before the clear.
C5_ClearEvictsAndNextLoadReloads ==
    /\ last.op = "clear" /\ last.present =>
          last.raised = None /\ ~contains(promise_cache, last.cache_key)
    /\ last.op = "load" /\ "clear" \in last.causes => last.invoked /\ last.created

C5_Witness ==
    /\ last.op = "load" /\ "clear" \in last.causes
    /\ last.invoked /\ last.created

\* C6: prime of an absent cache key with a promise stores that promise without
\* calling the load function, and a load of the key that follows returns the
\* primed promise, whatever its state, again without calling the load function.
C6_PrimeThenLoadReturnsThePrimed ==
    /\ last.op = "prime" /\ last.arg = "promise" /\ ~last.present =>
          /\ contains(promise_cache, last.cache_key)
          /\ promise_cache[last.cache_key] = last.promise
          /\ ~last.invoked
    /\ last.op = "load" /\ last.held # 0 /\ last.invocations = 0 =>
          last.promise = last.held /\ ~last.invoked

C6_Witness ==
    /\ last.op = "load" /\ last.held # 0 /\ last.invocations = 0
    /\ last.promise = last.held
    /\ promises[last.promise].state = "rejected"
    /\ load_calls = <<>>

\* C7: prime of a cache key that is in the cache leaves the whole cache as it
\* was, the entry still the promise stored first, and the load of the key that
\* comes next returns that promise, not the one prime was given.
C7_PrimeOfPresentKeyIsNoOp ==
    /\ [](last.op = "prime" /\ last.present =>
             last.same_cache /\ promise_cache[last.cache_key] = last.held)
    /\ [][(/\ last.op = "prime" /\ last.present
           /\ last'.op = "load" /\ last'.cache_key = last.cache_key
           /\ ncalls' = ncalls + 1)
          => /\ last'.promise = last.held
             /\ (last.promise # last.held => last'.promise # last.promise)]_vars

C7_Witness ==
    /\ last.op = "prime" /\ last.arg = "promise" /\ last.present
    /\ last.promise # last.held
    /\ promise_cache[last.cache_key] = last.held

\* C8: after clear_all the cache holds no key, and the next load of a key that
\* was cached before it calls the load function again and returns a promise
\* created by that call.
C8_ClearAllEvictsEveryKey ==
    /\ last.op = "clear_all" => DOMAIN promise_cache = {}
    /\ last.op = "load" /\ "clear_all" \in last.causes => last.invoked /\ last.created

C8_Witness ==
    /\ last.op = "load" /\ "clear_all" \in last.causes
    /\ last.invoked /\ last.created

\* C9: entries go by the derived cache key.  A load with an input whose cache
\* key holds a promise that a load stored returns that promise without a new
\* call, and the one call made for it had the first input; the promise a
\* cache-miss load returns is the entry of no other cache key, and has a call
\* of the load function of its own, made with that load's input.
C9_EntriesAreKeyedByTheDerivedKey ==
    /\ last.op = "load" /\ last.held # 0 /\ last.invocations = 1 =>
          /\ last.promise = last.held /\ ~last.invoked
          /\ \A i \in Calls :
                load_calls[i].promise = last.promise =>
                   load_calls[i].key = ghost[last.cache_key].first
    /\ last.op = "load" /\ last.held = 0 =>
          /\ \A c \in DOMAIN promise_cache \ {last.cache_key} :
                promise_cache[c] # last.promise
          /\ Len(load_calls) > 0
          /\ load_calls[Len(load_calls)].promise = last.promise
          /\ load_calls[Len(load_calls)].key = last.key
          /\ \A i \in 1..(Len(load_calls) - 1) : load_calls[i].promise # last.promise

\* two inputs, one derived key: the second load shares the first one's promise
C9_Witness ==
    /\ last.op = "load" /\ last.held # 0 /\ last.invocations = 1
    /\ last.promise = last.held
    /\ ghost[last.cache_key].first # last.key
    /\ Len(load_calls) = 1

\* C10: prime with an object that has no then raises before it touches the
\* cache: the cache is as it was, whether the key was in it or not, and the
\* load function is not called.
C10_PrimeOfNonPromiseChangesNothing ==
    last.op = "prime" /\ last.arg = "str" =>
       last.raised = "AssertionError" /\ last.same_cache /\ ~last.invoked

C10_Witness ==
    /\ last.op = "prime" /\ last.arg = "str"
    /\ last.raised = "AssertionError"
    /\ ~last.present /\ promise_cache # EmptyCache

\* C11: clear of a key whose cache key is not in the cache completes without
\* an error, leaves the cache as it was and returns the loader.
C11_ClearOfAbsentKeyReturnsTheLoader ==
    last.op = "clear" /\ ~last.present =>
       last.raised = None /\ last.ret = "self" /\ last.same_cache

\* C15: when the load that fails is not the one whose promise is the cached
\* entry of its key, the failure leaves the cache as it was.
C15_StaleFailureKeepsTheCurrentEntry ==
    last.op = "settle" /\ last.ret = "rejected" /\ last.present
        /\ last.held # last.promise
    => last.same_cache

C18_OtherKeysAreUntouched ==
    [][last'.op \in {"load", "prime", "clear", "settle"} /\ ncalls' = ncalls + 1
       => \A c \in CacheKeys \ {last'.cache_key} :
             /\ contains(promise_cache', c) <=> contains(promise_cache, c)
             /\ contains(promise_cache, c) => promise_cache'[c] = promise_cache[c]]_vars

C18_Witness ==
    /\ last.op = "settle" /\ last.ret = "rejected"
    /\ promises[last.promise].state = "rejected"
    /\ \E c \in CacheKeys \ {last.cache_key} : contains(promise_cache, c)

\* C12: clear_all leaves the loader as clearing every cached key would: with
\* an empty mapping of the type the loader was constructed with.
C12_ClearAllKeepsTheKindOfMapping ==
    /\ last.op = "clear_all" => promise_cache = EmptyCache
    /\ cache_type = (IF cache_map = None THEN "dict" ELSE cache_map)

\* C19: while a SingleElementDict that holds an entry is the cache, a load of
\* a key that is not in it raises the mapping's AssertionError without calling
\* the load function and leaves the cache as it was, and a load of the key
\* that is in it returns the cached promise without calling the load function.
C19_FullMappingRefusesNewKeys ==
    /\ last.op = "load" /\ cache_type = "SingleElementDict" /\ ~last.present
           /\ DOMAIN promise_cache \ {last.cache_key} # {}
       => last.raised = "AssertionError" /\ ~last.invoked /\ last.same_cache
    /\ last.op = "load" /\ cache_type = "SingleElementDict" /\ last.present
       => /\ last.raised = None /\ ~last.invoked /\ last.same_cache
          /\ last.promise = promise_cache[last.cache_key]

C19_Witness ==
    /\ last.op = "load" /\ cache_type = "SingleElementDict" /\ ~last.present
    /\ DOMAIN promise_cache \ {last.cache_key} # {}
    /\ last.raised = "AssertionError"
    /\ Len(load_calls) = 1

\* ------------------------------------------------- re-entrant calls of load
\* the calls of load made from inside the most recent operation
Reentered == {last.reentered[n] : n \in DOMAIN last.reentered}

\* C13 (as stated): on a miss, load publishes its pending promise before it calls
\* the load function and before a continuation is attached, so a load of the
\* same key made from inside the load function or from any continuation fired
\* inside that load returns the published promise and starts no second load.
C13_ReentrantLoadReturnsThePublished ==
    last.op = "load" =>
        \A e \in Reentered : e.promise = e.handle /\ ~e.invoked

\* C13 (amended): on a miss, load publishes its pending promise before it calls
\* the load function and before a continuation is attached, so a load of the
\* same key made from inside the load function, or from a continuation fired
\* inside that load by the success of the promise, finds the key present,
\* returns the published promise (the one the load returns) and starts no
\* second load.
C13_ReentrantLoadBeforeFailureReturnsThePublished ==
    last.op = "load" =>
        \A e \in Reentered :
            (e.from = "load_fn" \/ e.state = "fulfilled") =>
                /\ e.present /\ ~e.invoked
                /\ e.promise = e.handle /\ e.promise = last.promise
                /\ last.created

C13_Witness ==
    /\ last.op = "load" /\ last.created
    /\ \E e \in Reentered : e.from = "load_fn" /\ e.promise = last.promise
    /\ \E e \in Reentered : e.from = "continuation" /\ e.state = "fulfilled"
                                /\ e.promise = last.promise

\* C14: on a failure the key's entry is removed before the rejection reaches a
\* continuation: a load of the key made from a rejection handler of the failed
\* promise finds the key absent, calls the load function again and returns a
\* new promise, never the failed one.
C14_LoadInRejectionHandlerStartsAfresh ==
    \A e \in Reentered :
        (e.from = "continuation" /\ e.state = "rejected") =>
            /\ ~e.present /\ e.invoked
            /\ e.promise # e.handle
            /\ promises[e.handle].state = "rejected"
            /\ promises[e.promise].state = "pending"
            /\ promise_cache[cache_key_fn[e.key]] = e.promise

C14_Witness ==
    /\ last.op = "settle"
    /\ \E e \in Reentered : e.from = "continuation" /\ e.state = "rejected" /\ e.invoked

=============================================================================
